---- MODULE Spec2Model ----
(***************************************************************************)
(* The asynchronous task-lifecycle client of OmniSpread: startScan,        *)
(* getResults and pollResults (the api part of                             *)
(* frontend/components/pair-detail-modal.tsx) and the page's handleScan    *)
(* (frontend/app/page.tsx).                                                *)
(*                                                                         *)
(* JavaScript runs each continuation to its next await without             *)
(* interleaving, so one action is the code between two awaits: the call of *)
(* pollResults up to its first fetch, the continuation of a status fetch   *)
(* (observer call, terminal test, start of the timer), the continuation of *)
(* the timer (attempts++, loop test, next fetch).                          *)
(***************************************************************************)
EXTENDS Integers, Sequences, FiniteSets, TLC

\* ---------------------------------------------------------------- bounds
\* Largest maxAttempts argument a direct caller of pollResults passes.
MaxAttempts == 3
\* Number of scans the page starts one after the other.
MaxScans == 2
\* Longest ticker text typed into the form, in characters.
MaxInput == 4
\* Number of presses of the Run Scan button.
MaxClicks == 3

\* ------------------------------------------------------ program constants
\* pollResults(..., maxAttempts: number = 300)
DefaultMaxAttempts == 300
\* pollResults(..., intervalMs: number = 2000, ...)
DefaultIntervalMs == 2000

\* ---------------------------------------------------------------- values
\* An optional value is a sequence of length at most one: <<>> is undefined.
None == <<>>

Some(v) == <<v>>

\* TaskResult.status
Statuses == {"processing", "completed", "failed", "not_found"}

\* Task identifiers the service issues.
TaskIds == {"t1", "t2"}

\* PairResult values are opaque to the task client: named rows.
ResultLists == {<<>>, <<"P1">>, <<"P1", "P2">>}

\* TaskResult.error is optional; the service sends it with a failed task.
ErrorStrings == {"", "engine crashed", "Polling timed out"}

ErrorFields == {None} \cup {Some(e) : e \in ErrorStrings}

\* interface TaskResult: every body the results endpoint sends for handle t.
TaskResult(t) ==
    {[task_id |-> t, status |-> s, results |-> r, error |-> e] :
        s \in Statuses, r \in ResultLists, e \in ErrorFields}

\* The bodies the service of this model sends: an error string accompanies
\* a failed task only (no code reads the field of another status).
ServiceBodies(t) ==
    {b \in TaskResult(t) : b.error # None => b.status = "failed"}

\* Response.statusText of a non-success response.
StatusTexts == {"", "Internal Server Error"}

\* Message of the TypeError a rejected fetch() carries.
NetworkErrorMessage == "Failed to fetch"

\* The ways a transport call does not succeed: fetch() rejects, or the
\* response has res.ok = false with some statusText.
TransportFailures ==
    {[kind |-> "network", statusText |-> ""]}
        \cup {[kind |-> "http", statusText |-> s] : s \in StatusTexts}

\* The callers of pollResults: the page's handleScan and direct callers
\* that pass their own maxAttempts and a recording observer.
PageCall == "page"

DirectCalls == {"d1"}

Calls == {PageCall} \cup DirectCalls

\* ----------------------------------------------------------------- state
VARIABLES
    call,        \* per pollResults call: position, arguments, locals, counters
    observed,    \* per direct call: the snapshots its observer was handed
    served,      \* per direct call: the bodies the service answered with
    net,         \* the HTTP requests in flight
    submit,      \* position of the page's latest startScan call
    task_id,     \* the task_id the latest startScan call returned, or None
    posts,       \* number of POST /scan requests sent
    results,     \* page state: useState<PairResult[]>([])
    isScanning,  \* page state: useState(false)
    scanStatus,  \* page state: useState<string>("")
    error,       \* page state: useState<string>("")
    hpc,         \* position of the page's handleScan
    scans,       \* number of scans the page has started
    tickerInput, \* form state: useState(""), a sequence of characters
    period,      \* form state: useState("3y")
    startDate,   \* form state: useState(""), None when not chosen
    endDate,     \* form state: useState(""), None when not chosen
    presets,     \* form state: useState({}), the tickers of each preset key
    activePreset, \* form state: useState(null), the preset last applied
    clicks,      \* number of presses of the Run Scan button
    pair,        \* modal prop: the selected PairResult, None when null
    clock,       \* the instant new Date() last read, in hours since the epoch
    zone,        \* the browser's time zone: its offsets from UTC and their changes
    random,      \* the values Math.random() returned for the chart shown, in quarters
    chart        \* the series handed to the chart, None when there is no chart

pageVars ==
    <<submit, task_id, posts, results, isScanning, scanStatus, error, hpc,
      scans>>

formVars ==
    <<tickerInput, period, startDate, endDate, presets, activePreset>>

synthVars == <<pair, clock, zone, random, chart>>

vars ==
    <<call, observed, served, net, submit, task_id, posts, results, isScanning,
      scanStatus, error, hpc, scans, tickerInput, period, startDate, endDate,
      presets, activePreset, clicks, pair, clock, zone, random, chart>>

\* A pollResults call that has not been made.
IdleCall ==
    [pc |-> "idle", taskId |-> "", maxAttempts |-> 0, attempts |-> 0,
     result |-> None, delivered |-> None, returned |-> None, thrown |-> None,
     fetches |-> 0, fetchOk |-> 0, fetchFailed |-> 0, updates |-> 0,
     sleeps |-> 0]

\* ------------------------------------------------------------ pollResults
\* result.status === "completed" || result.status === "failed"
IsTerminalMutant(status) == status \in {"completed", "failed", "not_found"}

IsTerminal(status) == status \in {"completed", "failed"}

\* throw new Error("Polling timed out")
PollTimeoutMessage == "Polling timed out"

\* throw new Error(`Results fetch failed: ${res.statusText}`), or the
\* rejection of fetch() itself, which getResults lets through.
GetResultsError(f) ==
    IF f.kind = "network" THEN NetworkErrorMessage
    ELSE "Results fetch failed: " \o f.statusText

\* ResultsRequest with the handle kept in one place for all calls: every
\* fetch asks for the first task.
ResultsRequestSharedHandle(c, t, k) ==
    [kind |-> "results", call |-> c, taskId |-> "t1", seq |-> k]

\* The request getResults(taskId) puts in flight: GET /results/${taskId};
\* k numbers the fetches of call c.
ResultsRequest(c, t, k) ==
    [kind |-> "results", call |-> c, taskId |-> t, seq |-> k]

\* The request call c, in state r, waits for.
Awaited(c, r) == ResultsRequest(c, r.taskId, r.fetches)

\* The requests in flight after call c moved from record r to record nr:
\* every fetch the step issued is in flight.
Issue(c, r, nr, n) ==
    n \cup {ResultsRequest(c, nr.taskId, k) : k \in (r.fetches + 1) .. nr.fetches}

\* LoopHead of a do ... while loop: the first poll is made before the
\* ceiling is looked at.
LoopHeadDoWhile(r) ==
    IF r.fetches = 0 \/ r.attempts < r.maxAttempts
    THEN [r EXCEPT !.pc = "fetching", !.fetches = @ + 1]
    ELSE [r EXCEPT !.pc = "threw", !.thrown = Some(PollTimeoutMessage)]

\* LoopHead with the test attempts <= maxAttempts: one poll too many.
LoopHeadOffByOne(r) ==
    IF r.attempts <= r.maxAttempts
    THEN [r EXCEPT !.pc = "fetching", !.fetches = @ + 1]
    ELSE [r EXCEPT !.pc = "threw", !.thrown = Some(PollTimeoutMessage)]

\* LoopHead without the throw: at the ceiling the loop waits and tests
\* again instead of ending the call.
LoopHeadNoCeiling(r) ==
    IF r.attempts < r.maxAttempts
    THEN [r EXCEPT !.pc = "fetching", !.fetches = @ + 1]
    ELSE [r EXCEPT !.pc = "sleeping", !.attempts = r.maxAttempts - 1]

\* while (attempts < maxAttempts) { const result = await getResults(taskId)
\* ... } throw new Error("Polling timed out"): the loop test and what
\* follows it up to the next await.
LoopHead(r) ==
    IF r.attempts < r.maxAttempts
    THEN [r EXCEPT !.pc = "fetching", !.fetches = @ + 1]
    ELSE [r EXCEPT !.pc = "threw", !.thrown = Some(PollTimeoutMessage)]

\* EnterPollResults that polls the first task, whatever handle it is given.
EnterPollResultsFirstHandle(t, m) ==
    LoopHead([IdleCall EXCEPT !.taskId = "t1", !.maxAttempts = m,
                              !.attempts = 0])

\* let attempts = 0; and the first loop test.
EnterPollResults(t, m) ==
    LoopHead([IdleCall EXCEPT !.taskId = t, !.maxAttempts = m, !.attempts = 0])

\* AfterGetResults with the terminal test before the observer call: the
\* terminal snapshot is returned without being delivered.
AfterGetResultsReturnFirst(r, b) ==
    LET got == [r EXCEPT !.result = Some(b), !.fetchOk = @ + 1]
    IN  IF IsTerminal(b.status)
        THEN [got EXCEPT !.pc = "returned", !.returned = Some(b)]
        ELSE [got EXCEPT !.delivered = Some(b), !.updates = @ + 1,
                         !.pc = "sleeping", !.sleeps = @ + 1]

\* AfterGetResults without the suspension: the next poll follows at once.
AfterGetResultsNoSleep(r, b) ==
    LET seen == [r EXCEPT !.result = Some(b), !.fetchOk = @ + 1,
                          !.delivered = Some(b), !.updates = @ + 1]
    IN  IF IsTerminal(b.status)
        THEN [seen EXCEPT !.pc = "returned", !.returned = Some(b)]
        ELSE LoopHead([seen EXCEPT !.attempts = @ + 1])

\* AfterGetResults treating not_found as an error of the poll.
AfterGetResultsNotFoundThrows(r, b) ==
    LET seen == [r EXCEPT !.result = Some(b), !.fetchOk = @ + 1,
                          !.delivered = Some(b), !.updates = @ + 1]
    IN  IF b.status = "not_found"
        THEN [r EXCEPT !.result = Some(b), !.fetchOk = @ + 1,
                       !.pc = "threw", !.thrown = Some("Task not found")]
        ELSE IF IsTerminal(b.status)
        THEN [seen EXCEPT !.pc = "returned", !.returned = Some(b)]
        ELSE [seen EXCEPT !.pc = "sleeping", !.sleeps = @ + 1]

\* AfterGetResults that hands the observer a snapshot only when its status
\* differs from the one before.
AfterGetResultsOnChange(r, b) ==
    LET got == [r EXCEPT !.result = Some(b), !.fetchOk = @ + 1]
        seen == IF r.result # None /\ r.result[1].status = b.status
                THEN got
                ELSE [got EXCEPT !.delivered = Some(b), !.updates = @ + 1]
    IN  IF IsTerminal(b.status)
        THEN [seen EXCEPT !.pc = "returned", !.returned = Some(b)]
        ELSE [seen EXCEPT !.pc = "sleeping", !.sleeps = @ + 1]

\* onUpdate(result); if (terminal) return result; await new Promise(...
\* setTimeout(resolve, intervalMs)): the continuation of a fetch that
\* resolved with body b.
AfterGetResults(r, b) ==
    LET seen == [r EXCEPT !.result = Some(b), !.fetchOk = @ + 1,
                          !.delivered = Some(b), !.updates = @ + 1]
    IN  IF IsTerminal(b.status)
        THEN [seen EXCEPT !.pc = "returned", !.returned = Some(b)]
        ELSE [seen EXCEPT !.pc = "sleeping", !.sleeps = @ + 1]

\* AfterGetResultsFailure that swallows the error and polls again after
\* the interval.
AfterGetResultsFailureRetries(r, f) ==
    [r EXCEPT !.pc = "sleeping", !.sleeps = @ + 1, !.fetchFailed = @ + 1]

\* The continuation of a fetch that did not succeed: getResults throws and
\* pollResults, having no try, throws with it.
AfterGetResultsFailure(r, f) ==
    [r EXCEPT !.pc = "threw", !.thrown = Some(GetResultsError(f)),
              !.fetchFailed = @ + 1]

\* attempts++ and the next loop test, when the timer fires.
AfterSleep(r) ==
    LoopHead([r EXCEPT !.attempts = @ + 1])

\* The observer a direct caller passes appends every snapshot it is handed
\* to its log: the log after the step that moved the call from r to nr.
Observe(log, r, nr) ==
    IF nr.updates > r.updates THEN Append(log, nr.delivered[1]) ELSE log

\* ------------------------------------------------------------------ page
\* The ticker lists and periods the form hands to onScan.
TickerLists == {<<"AAPL", "MSFT">>, <<"AAPL", "MSFT", "GOOG">>}

Periods == {"1y", "3y"}

\* The request startScan({ tickers, period }) puts in flight; scan numbers
\* the scans of the page.
ScanRequest(tk, p, n) ==
    [kind |-> "scan", tickers |-> tk, period |-> p, scan |-> n]

\* throw new Error(`Scan request failed: ${res.statusText}`), or the
\* rejection of fetch() itself, which startScan lets through.
StartScanError(f) ==
    IF f.kind = "network" THEN NetworkErrorMessage
    ELSE "Scan request failed: " \o f.statusText

\* The four useState cells handleScan writes, as one record.
PageState ==
    [results |-> results, isScanning |-> isScanning,
     scanStatus |-> scanStatus, error |-> error]

\* BeginScan without setResults([]): the rows of the scan before stay.
BeginScanKeepsResults(p) ==
    [p EXCEPT !.isScanning = TRUE, !.error = "",
              !.scanStatus = "Starting scan..."]

\* BeginScan without setError(""): the error of the scan before stays.
BeginScanKeepsError(p) ==
    [p EXCEPT !.isScanning = TRUE, !.results = <<>>,
              !.scanStatus = "Starting scan..."]

\* BeginScan without setIsScanning(true): the button stays enabled.
BeginScanNoFlag(p) ==
    [p EXCEPT !.results = <<>>, !.error = "",
              !.scanStatus = "Starting scan..."]

\* setIsScanning(true); setResults([]); setError("");
\* setScanStatus("Starting scan...")
BeginScan(p) ==
    [p EXCEPT !.isScanning = TRUE, !.results = <<>>, !.error = "",
              !.scanStatus = "Starting scan..."]

\* setScanStatus("Scanning pairs - this may take a moment...")
AfterStartScan(p) ==
    [p EXCEPT !.scanStatus = "Scanning pairs - this may take a moment..."]

\* (update) => { if (update.status === "processing") setScanStatus(...) }
onUpdate(p, update) ==
    IF update.status = "processing"
    THEN [p EXCEPT !.scanStatus =
              "Analyzing cointegration & running Monte Carlo..."]
    ELSE p

\* `Found ${n} actionable pair${n > 1 ? "s" : ""}` or the no-pairs text.
FoundStatus(n) ==
    IF n > 0
    THEN "Found " \o ToString(n) \o " actionable pair"
             \o (IF n > 1 THEN "s" ELSE "")
    ELSE "No pairs met the Z > 2.0 threshold"

\* ErrorOrDefault that ignores the error the service sent.
ErrorAlwaysDefault(e) == "Scan failed unexpectedly"

\* result.error || "Scan failed unexpectedly"
ErrorOrDefault(e) ==
    IF e = None \/ e[1] = "" THEN "Scan failed unexpectedly" ELSE e[1]

\* Finally that leaves the flag as it is.
FinallyNoClear(p) == p

\* finally { setIsScanning(false) }
Finally(p) == [p EXCEPT !.isScanning = FALSE]

\* AfterPollResults that shows the results of a failed task as well.
AfterPollResultsCopiesAlways(p, result) ==
    Finally(
        IF result.status = "completed"
        THEN [p EXCEPT !.results = result.results,
                       !.scanStatus = FoundStatus(Len(result.results))]
        ELSE IF result.status = "failed"
        THEN [p EXCEPT !.results = result.results,
                       !.error = ErrorOrDefault(result.error),
                       !.scanStatus = ""]
        ELSE p)

\* if (result.status === "completed") {...} else if (result.status ===
\* "failed") {...}, then the finally block.
AfterPollResults(p, result) ==
    Finally(
        IF result.status = "completed"
        THEN [p EXCEPT !.results = result.results,
                       !.scanStatus = FoundStatus(Len(result.results))]
        ELSE IF result.status = "failed"
        THEN [p EXCEPT !.error = ErrorOrDefault(result.error),
                       !.scanStatus = ""]
        ELSE p)

\* Catch that swallows the error: nothing is shown.
CatchSilent(p, message) ==
    Finally([p EXCEPT !.scanStatus = ""])

\* catch (err) { setError(err.message); setScanStatus("") }, then the
\* finally block.
Catch(p, message) ==
    Finally([p EXCEPT !.error = message, !.scanStatus = ""])

\* What handleScan does when its pollResults call has moved to record nr:
\* nothing while the call runs, the rest of the try block when it returned,
\* the catch block when it threw.
ContinueHandleScan(p, nr) ==
    IF nr.pc = "returned" THEN AfterPollResults(p, nr.returned[1])
    ELSE IF nr.pc = "threw" THEN Catch(p, nr.thrown[1])
    ELSE p

\* The page state after a step that leaves it as record p.
SetPage(p, h) ==
    /\ results' = p.results
    /\ isScanning' = p.isScanning
    /\ scanStatus' = p.scanStatus
    /\ error' = p.error
    /\ hpc' = h

\* Position of handleScan after its pollResults call moved to record nr.
HandlerPc(nr) == IF nr.pc \in {"returned", "threw"} THEN "idle" ELSE "tracking"

\* The preset map GET /presets answers with: a universe of two tickers and
\* a universe of one.
PresetKeys == {"p1", "p2"}

PresetMaps ==
    {[k \in PresetKeys |->
         IF k = "p1" THEN <<<<"A">>, <<"b">>>> ELSE <<<<"A">>>>]}

\* fetch(`${API_BASE}/presets`) of getPresets, in flight.
PresetsRequest == [kind |-> "presets"]

\* The page as mounted and the task client before any call: the form's
\* mount effect has called getPresets(), nothing else is in flight.
InitClient ==
    /\ call = [c \in Calls |-> IdleCall]
    /\ observed = [c \in DirectCalls |-> <<>>]
    /\ served = [c \in DirectCalls |-> <<>>]
    /\ net = {PresetsRequest}
    /\ submit = "none"
    /\ task_id = None
    /\ posts = 0
    /\ results = <<>>
    /\ isScanning = FALSE
    /\ scanStatus = ""
    /\ error = ""
    /\ hpc = "idle"
    /\ scans = 0
    /\ clicks = 0

\* useState<Presets>({}): no preset key.
NoPresets == [k \in {} |-> <<>>]

\* The form as mounted: useState(""), useState("3y"), useState(""),
\* useState(""), useState({}), useState(null).
InitFormState ==
    /\ tickerInput = <<>>
    /\ period = "3y"
    /\ startDate = None
    /\ endDate = None
    /\ presets = NoPresets
    /\ activePreset = None

\* The modal as mounted: no pair selected, no series built.
InitModal ==
    /\ pair = None
    /\ clock = 0
    /\ zone = [base |-> 0, changes |-> <<>>]
    /\ random = <<>>
    /\ chart = None

Init == InitClient /\ InitFormState /\ InitModal

\* getPresets().then(setPresets): GET /presets is answered with the map m.
GetPresetsResolves(m) ==
    /\ PresetsRequest \in net
    /\ net' = net \ {PresetsRequest}
    /\ presets' = m
    /\ UNCHANGED <<call, observed, served, pageVars, tickerInput, period,
                   startDate, endDate, activePreset, clicks, synthVars>>

\* getPresets() rejects (fetch fails or the answer is not ok):
\* .catch(() => { }) leaves the form as it is.
GetPresetsFails ==
    /\ PresetsRequest \in net
    /\ net' = net \ {PresetsRequest}
    /\ UNCHANGED <<call, observed, served, pageVars, formVars, clicks,
                   synthVars>>

\* The end of the presets request.
GetPresetsEnds ==
    \/ \E m \in PresetMaps : GetPresetsResolves(m)
    \/ GetPresetsFails

\* A direct call pollResults(t, observer, intervalMs, m).
pollResults(c, t, m) ==
    /\ call[c].pc = "idle"
    /\ LET nr == EnterPollResults(t, m)
       IN  /\ call' = [call EXCEPT ![c] = nr]
           /\ net' = Issue(c, IdleCall, nr, net)
    /\ UNCHANGED <<observed, served, pageVars, formVars, clicks, synthVars>>

\* The status fetch of direct call c resolves with body b.
GetResultsResolves(c, b) ==
    /\ call[c].pc = "fetching"
    /\ Awaited(c, call[c]) \in net
    /\ b \in ServiceBodies(call[c].taskId)
    /\ LET nr == AfterGetResults(call[c], b)
       IN  /\ call' = [call EXCEPT ![c] = nr]
           /\ observed' = [observed EXCEPT ![c] = Observe(@, call[c], nr)]
           /\ net' = Issue(c, call[c], nr, net \ {Awaited(c, call[c])})
    /\ served' = [served EXCEPT ![c] = Append(@, b)]
    /\ UNCHANGED <<pageVars, formVars, clicks, synthVars>>

\* The status fetch of direct call c fails at transport level.
GetResultsFails(c, f) ==
    /\ call[c].pc = "fetching"
    /\ Awaited(c, call[c]) \in net
    /\ LET nr == AfterGetResultsFailure(call[c], f)
       IN  /\ call' = [call EXCEPT ![c] = nr]
           /\ observed' = [observed EXCEPT ![c] = Observe(@, call[c], nr)]
           /\ net' = Issue(c, call[c], nr, net \ {Awaited(c, call[c])})
    /\ UNCHANGED <<served, pageVars, formVars, clicks, synthVars>>

\* The timer of direct call c fires.
TimerFires(c) ==
    /\ call[c].pc = "sleeping"
    /\ LET nr == AfterSleep(call[c])
       IN  /\ call' = [call EXCEPT ![c] = nr]
           /\ observed' = [observed EXCEPT ![c] = Observe(@, call[c], nr)]
           /\ net' = Issue(c, call[c], nr, net)
    /\ UNCHANGED <<served, pageVars, formVars, clicks, synthVars>>

Next ==
    \/ \E c \in DirectCalls, t \in TaskIds, m \in (-1) .. MaxAttempts :
           pollResults(c, t, m)
    \/ \E c \in DirectCalls, b \in UNION {ServiceBodies(t) : t \in TaskIds} :
           GetResultsResolves(c, b)
    \/ \E c \in DirectCalls, f \in TransportFailures : GetResultsFails(c, f)
    \/ \E c \in DirectCalls : TimerFires(c)
    \/ GetPresetsEnds

Spec == Init /\ [][Next]_vars

\* The page's observer applied when the step from r to nr called it.
ObservePage(p, r, nr) ==
    IF nr.updates > r.updates THEN onUpdate(p, nr.delivered[1]) ELSE p

\* The Run Scan button is pressed: handleScan(tk, p) up to its first await,
\* the fetch inside startScan. The button is disabled while isScanning;
\* nothing else keeps a press from starting a handler.
handleScan(tk, p) ==
    /\ ~isScanning
    /\ scans < MaxScans
    /\ scans' = scans + 1
    /\ SetPage(BeginScan(PageState), "submitting")
    /\ submit' = "pending"
    /\ task_id' = None
    /\ posts' = posts + 1
    /\ net' = net \cup {ScanRequest(tk, p, posts + 1)}
    /\ call' = [call EXCEPT ![PageCall] = IdleCall]
    /\ UNCHANGED <<observed, served, formVars, synthVars>>

\* POST /scan resolves with { task_id: t }: handleScan goes on to call
\* pollResults(task_id, onUpdate) with the default interval and ceiling.
StartScanResolves(t) ==
    /\ hpc = "submitting"
    /\ \E q \in net : q.kind = "scan"
    /\ submit' = "returned"
    /\ task_id' = Some(t)
    /\ LET nr == EnterPollResults(t, DefaultMaxAttempts)
       IN  /\ call' = [call EXCEPT ![PageCall] = nr]
           /\ net' = Issue(PageCall, IdleCall, nr,
                           {q \in net : q.kind # "scan"})
           /\ SetPage(ContinueHandleScan(AfterStartScan(PageState), nr),
                      HandlerPc(nr))
    /\ UNCHANGED <<observed, served, posts, scans, formVars, clicks, synthVars>>

\* POST /scan does not succeed: startScan throws into handleScan's catch.
StartScanFails(f) ==
    /\ hpc = "submitting"
    /\ \E q \in net : q.kind = "scan"
    /\ submit' = "threw"
    /\ net' = {q \in net : q.kind # "scan"}
    /\ SetPage(Catch(PageState, StartScanError(f)), "idle")
    /\ UNCHANGED <<call, observed, served, task_id, posts, scans, formVars,
                   clicks, synthVars>>

\* The status fetch of the page's pollResults call resolves with body b.
PageGetResultsResolves(b) ==
    /\ hpc = "tracking"
    /\ call[PageCall].pc = "fetching"
    /\ Awaited(PageCall, call[PageCall]) \in net
    /\ b.task_id = call[PageCall].taskId
    /\ LET r == call[PageCall]
           nr == AfterGetResults(r, b)
       IN  /\ call' = [call EXCEPT ![PageCall] = nr]
           /\ net' = Issue(PageCall, r, nr, net \ {Awaited(PageCall, r)})
           /\ SetPage(ContinueHandleScan(ObservePage(PageState, r, nr), nr),
                      HandlerPc(nr))
    /\ UNCHANGED <<observed, served, submit, task_id, posts, scans, formVars,
                   clicks, synthVars>>

\* The status fetch of the page's pollResults call fails.
PageGetResultsFails(f) ==
    /\ hpc = "tracking"
    /\ call[PageCall].pc = "fetching"
    /\ Awaited(PageCall, call[PageCall]) \in net
    /\ LET r == call[PageCall]
           nr == AfterGetResultsFailure(r, f)
       IN  /\ call' = [call EXCEPT ![PageCall] = nr]
           /\ net' = Issue(PageCall, r, nr, net \ {Awaited(PageCall, r)})
           /\ SetPage(ContinueHandleScan(ObservePage(PageState, r, nr), nr),
                      HandlerPc(nr))
    /\ UNCHANGED <<observed, served, submit, task_id, posts, scans, formVars,
                   clicks, synthVars>>

\* The timer of the page's pollResults call fires.
PageTimerFires ==
    /\ hpc = "tracking"
    /\ call[PageCall].pc = "sleeping"
    /\ LET r == call[PageCall]
           nr == AfterSleep(r)
       IN  /\ call' = [call EXCEPT ![PageCall] = nr]
           /\ net' = Issue(PageCall, r, nr, net)
           /\ SetPage(ContinueHandleScan(ObservePage(PageState, r, nr), nr),
                      HandlerPc(nr))
    /\ UNCHANGED <<observed, served, submit, task_id, posts, scans, formVars,
                   clicks, synthVars>>

NextPage ==
    \/ \E tk \in TickerLists, p \in Periods :
           handleScan(tk, p) /\ UNCHANGED clicks
    \/ \E t \in TaskIds : StartScanResolves(t)
    \/ \E f \in TransportFailures : StartScanFails(f)
    \/ \E b \in UNION {ServiceBodies(t) : t \in TaskIds} :
           PageGetResultsResolves(b)
    \/ \E f \in TransportFailures : PageGetResultsFails(f)
    \/ PageTimerFires
    \/ GetPresetsEnds

SpecPage == Init /\ [][NextPage]_vars

\* ------------------------------------------------------ throwing observer
\* The observer is the caller's code: it can throw. Message of its error.
ObserverErrorMessage == "observer failed"

\* AfterGetResultsObserverThrows with the observer call wrapped in a try:
\* the error is noted and the loop goes on to the suspension.
AfterGetResultsObserverCaught(r, b) ==
    [r EXCEPT !.result = Some(b), !.fetchOk = @ + 1,
              !.delivered = Some(b), !.updates = @ + 1,
              !.thrown = Some(ObserverErrorMessage),
              !.pc = "sleeping", !.sleeps = @ + 1]

\* onUpdate(result) throws: pollResults has no try around the call, so the
\* error leaves the loop before the terminal test and the suspension.
AfterGetResultsObserverThrows(r, b) ==
    [r EXCEPT !.result = Some(b), !.fetchOk = @ + 1,
              !.delivered = Some(b), !.updates = @ + 1,
              !.pc = "threw", !.thrown = Some(ObserverErrorMessage)]

\* The status fetch of direct call c resolves with body b and the observer
\* throws when it is handed b.
GetResultsResolvesObserverThrows(c, b) ==
    /\ call[c].pc = "fetching"
    /\ Awaited(c, call[c]) \in net
    /\ b \in ServiceBodies(call[c].taskId)
    /\ LET nr == AfterGetResultsObserverThrows(call[c], b)
       IN  /\ call' = [call EXCEPT ![c] = nr]
           /\ observed' = [observed EXCEPT ![c] = Observe(@, call[c], nr)]
           /\ net' = Issue(c, call[c], nr, net \ {Awaited(c, call[c])})
    /\ served' = [served EXCEPT ![c] = Append(@, b)]
    /\ UNCHANGED <<pageVars, formVars, clicks, synthVars>>

NextObserver ==
    \/ Next
    \/ \E c \in DirectCalls, b \in UNION {ServiceBodies(t) : t \in TaskIds} :
           GetResultsResolvesObserverThrows(c, b)

SpecObserver == Init /\ [][NextObserver]_vars

\* ------------------------------------------------------ concurrent calls
\* Two pollResults calls made by two callers, each on its own handle, with
\* their fetches and timers interleaved in every order.
MaxAttemptsTwo == 3

ConcurrentCalls == {"d1", "d2"}

\* The handle each of the two callers passes.
HandleOf(c) == IF c = "d1" THEN "t1" ELSE "t2"

\* One body per status: a completed task has a row, a failed one an error.
StatusBody(t, s) ==
    [task_id |-> t, status |-> s,
     results |-> IF s = "completed" THEN <<"P1">> ELSE <<>>,
     error |-> IF s = "failed" THEN Some("engine crashed") ELSE None]

TwoBodies(t) == {StatusBody(t, s) : s \in Statuses}

InitTwo ==
    /\ call = [c \in Calls \cup ConcurrentCalls |-> IdleCall]
    /\ observed = [c \in ConcurrentCalls |-> <<>>]
    /\ served = [c \in ConcurrentCalls |-> <<>>]
    /\ net = {PresetsRequest}
    /\ submit = "none"
    /\ task_id = None
    /\ posts = 0
    /\ results = <<>>
    /\ isScanning = FALSE
    /\ scanStatus = ""
    /\ error = ""
    /\ hpc = "idle"
    /\ scans = 0
    /\ clicks = 0
    /\ InitFormState
    /\ InitModal

NextTwo ==
    \/ \E c \in ConcurrentCalls, m \in 0 .. MaxAttemptsTwo :
           pollResults(c, HandleOf(c), m)
    \/ \E c \in ConcurrentCalls :
           \E b \in TwoBodies(HandleOf(c)) : GetResultsResolves(c, b)
    \/ \E c \in ConcurrentCalls, f \in TransportFailures :
           GetResultsFails(c, f)
    \/ \E c \in ConcurrentCalls : TimerFires(c)
    \/ GetPresetsEnds

SpecTwo == InitTwo /\ [][NextTwo]_vars

\* The steps that end an await of handleScan: the answer to POST /scan or
\* its failure, the answer to a status fetch or its failure, the timer.
\* The handler waits at one await at a time, so at most one kind is enabled.
\* The answers are one body per status and handle.
AwaitEnds ==
    \/ \E t \in TaskIds : StartScanResolves(t)
    \/ \E f \in TransportFailures : StartScanFails(f)
    \/ \E t \in TaskIds : \E b \in TwoBodies(t) : PageGetResultsResolves(b)
    \/ \E f \in TransportFailures : PageGetResultsFails(f)
    \/ PageTimerFires

NextPageLive ==
    \/ \E tk \in TickerLists, p \in Periods :
           handleScan(tk, p) /\ UNCHANGED clicks
    \/ AwaitEnds
    \/ GetPresetsEnds

\* Liveness of the page: every POST /scan is answered or fails, every
\* status fetch is answered or fails, and every timer fires.
FairSpecPage == Init /\ [][NextPageLive]_vars /\ WF_vars(AwaitEnds)

\* ------------------------------------------------------------------ form
\* A text is the sequence of its characters. The characters typed.
Alphabet == {"a", "A", "b", ",", " "}

Texts == UNION {[1 .. k -> Alphabet] : k \in 0 .. MaxInput}

\* PERIODS of the form; "3y" stands for the five fixed lookbacks.
FormPeriods == {"3y", "custom"}

\* The dates of the two date inputs, as day numbers; None is the empty input.
DateInputs == {None, Some(1), Some(2)}

\* \s of the regular expression, and the characters trim() removes.
IsSpace(ch) == ch = " "

\* [,\s] of tickerInput.split(/[,\s]+/)
IsSeparator(ch) == ch = "," \/ IsSpace(ch)

\* String.prototype.split with the separator /[,\s]+/: the pieces between
\* maximal runs of separators; a run at either end leaves an empty piece.
RECURSIVE SplitFrom(_, _, _, _, _)
SplitFrom(s, i, cur, out, inRun) ==
    IF i > Len(s) THEN Append(out, cur)
    ELSE IF IsSeparator(s[i])
    THEN IF inRun THEN SplitFrom(s, i + 1, cur, out, TRUE)
         ELSE SplitFrom(s, i + 1, <<>>, Append(out, cur), TRUE)
    ELSE SplitFrom(s, i + 1, Append(cur, s[i]), out, FALSE)

Split(s) == SplitFrom(s, 1, <<>>, <<>>, FALSE)

\* String.prototype.trim
RECURSIVE Trim(_)
Trim(s) ==
    IF s = <<>> THEN s
    ELSE IF IsSpace(s[1]) THEN Trim(Tail(s))
    ELSE IF IsSpace(s[Len(s)]) THEN Trim(SubSeq(s, 1, Len(s) - 1))
    ELSE s

\* String.prototype.toUpperCase, per character
UpperChar(ch) ==
    CASE ch = "a" -> "A"
      [] ch = "b" -> "B"
      [] OTHER -> ch

ToUpperCase(s) == [i \in 1 .. Len(s) |-> UpperChar(s[i])]

\* ParseTickers without .filter(Boolean): empty pieces stay in the list.
ParseTickersNoFilter(s) ==
    LET pieces == Split(s)
    IN  [i \in 1 .. Len(pieces) |-> ToUpperCase(Trim(pieces[i]))]

\* tickerInput.split(/[,\s]+/).map((t) => t.trim().toUpperCase())
\*     .filter(Boolean)
ParseTickers(s) ==
    LET pieces == Split(s)
        mapped == [i \in 1 .. Len(pieces) |-> ToUpperCase(Trim(pieces[i]))]
    IN  SelectSeq(mapped, LAMBDA t : t # <<>>)

\* if (tickers.length >= 2)
EnoughTickers(tickers) == Len(tickers) >= 2

\* The arguments of onScan: onScan(tickers, period, startDate, endDate) for
\* the custom period, onScan(tickers, period) otherwise.
OnScanArgs(tickers, p, sd, ed) ==
    IF p = "custom" THEN <<tickers, p, sd, ed>> ELSE <<tickers, p>>

\* disabled={isScanning || tickerInput.trim().length === 0}
ButtonDisabled == isScanning \/ Len(Trim(tickerInput)) = 0

\* The texts the user types into the textarea.
TypedTexts ==
    {<<>>, <<",">>, <<"a">>, <<"a", " ", "b">>, <<"a", ",", "b">>,
     <<"A", ",", "b">>, <<" ", "a", ",", "b">>, <<"a", ",", "A">>,
     <<"b", ",", "A">>}

\* Array.prototype.join
RECURSIVE Join(_, _)
Join(list, sep) ==
    IF list = <<>> THEN <<>>
    ELSE IF Len(list) = 1 THEN list[1]
    ELSE list[1] \o sep \o Join(Tail(list), sep)

\* handlePreset(key), from the button of a key of presets.
handlePreset(key) ==
    /\ key \in DOMAIN presets
    /\ tickerInput' = Join(presets[key], <<",", " ">>)
    /\ activePreset' = Some(key)
    /\ UNCHANGED <<call, observed, served, net, pageVars, period, startDate,
                   endDate, presets, clicks, synthVars>>

\* The textarea's onChange: setTickerInput(e.target.value);
\* setActivePreset(null).
setTickerInput(text) ==
    /\ tickerInput' = text
    /\ activePreset' = None
    /\ UNCHANGED <<call, observed, served, net, pageVars, period, startDate,
                   endDate, presets, clicks, synthVars>>

\* A period button's onClick: setPeriod(p.value).
setPeriod(p) ==
    /\ period' = p
    /\ UNCHANGED <<call, observed, served, net, pageVars, tickerInput,
                   startDate, endDate, presets, activePreset, clicks,
                   synthVars>>

\* The start date input's onChange; the date inputs are rendered for the
\* custom period only.
setStartDate(d) ==
    /\ period = "custom"
    /\ startDate' = d
    /\ UNCHANGED <<call, observed, served, net, pageVars, tickerInput, period,
                   endDate, presets, activePreset, clicks, synthVars>>

\* The end date input's onChange.
setEndDate(d) ==
    /\ period = "custom"
    /\ endDate' = d
    /\ UNCHANGED <<call, observed, served, net, pageVars, tickerInput, period,
                   startDate, presets, activePreset, clicks, synthVars>>

\* The Run Scan button is pressed: the form's handleScan, and through onScan
\* the page's handleScan (tickers, period), which takes the first two
\* arguments only, up to the fetch inside startScan.
RunScan ==
    /\ ~ButtonDisabled
    /\ clicks < MaxClicks
    /\ clicks' = clicks + 1
    /\ LET tickers == ParseTickers(tickerInput)
           args == OnScanArgs(tickers, period, startDate, endDate)
       IN  IF EnoughTickers(tickers)
           THEN handleScan(args[1], args[2])
           ELSE UNCHANGED <<call, observed, served, net, pageVars, formVars,
                            synthVars>>

\* The status fetch of the scan the form started is answered: with a body
\* that ends the polling, or with one that does not while fewer than
\* MaxAttempts fetches were made.
FormGetResultsResolves(b) ==
    /\ IsTerminal(b.status) \/ call[PageCall].fetches < MaxAttempts
    /\ PageGetResultsResolves(b)

NextForm ==
    \/ GetPresetsEnds
    \/ \E key \in PresetKeys : handlePreset(key)
    \/ \E text \in TypedTexts : setTickerInput(text)
    \/ \E p \in FormPeriods : setPeriod(p)
    \/ \E d \in DateInputs : setStartDate(d)
    \/ \E d \in DateInputs : setEndDate(d)
    \/ RunScan
    \/ StartScanResolves("t1")
    \/ \E f \in TransportFailures : StartScanFails(f)
    \/ \E b \in TwoBodies("t1") : FormGetResultsResolves(b)
    \/ \E f \in TransportFailures : PageGetResultsFails(f)
    \/ PageTimerFires

SpecForm == Init /\ [][NextForm]_vars

\* ----------------------------------------------------------- arithmetic
\* The numbers of the synthesizer, exact. A number is
\*   [k |-> "num", n, d, l]    the value (n / d) * (ln 2)^l, d > 0, in
\*                             lowest terms;
\*   [k |-> "inf", s]          +Infinity (s = 1) or -Infinity (s = -1);
\*   [k |-> "nan"]             NaN;
\*   [k |-> "root", c, of]     c * sqrt(of), c a non-zero "num" with l = 0
\*                             and of a positive "num";
\*   [k |-> "exp", of]         e^of, of a non-zero "num";
\*   [k |-> "gain", phi]       sqrt(1 - phi * phi), phi an "exp" below one;
\*   [k |-> "ar", phi, coef]   sqrt(1 - phi * phi) times the sum over j of
\*                             phi^(Len(coef) - j) * coef[j].
\* Rounding is not modelled: the operators are those of real arithmetic,
\* with the IEEE results for division by zero and for the square root of a
\* negative number.
Abs(x) == IF x < 0 THEN -x ELSE x

Sign(x) == IF x < 0 THEN -1 ELSE IF x > 0 THEN 1 ELSE 0

RECURSIVE Gcd(_, _)
Gcd(a, b) == IF b = 0 THEN a ELSE Gcd(b, a % b)

NaN == [k |-> "nan"]

Inf(sgn) == [k |-> "inf", s |-> sgn]

\* (n / d) * (ln 2)^l in lowest terms.
Num(n, d, l) ==
    IF n = 0 THEN [k |-> "num", n |-> 0, d |-> 1, l |-> 0]
    ELSE LET g == Gcd(Abs(n), Abs(d))
         IN  [k |-> "num", n |-> (Sign(d) * n) \div g, d |-> Abs(d) \div g,
              l |-> l]

Zero == Num(0, 1, 0)

One == Num(1, 1, 0)

Two == Num(2, 1, 0)

\* Math.log(2)
Log2 == Num(1, 1, 1)

\* The sign of a number: -1, 0 or 1; NaN has none.
SignOf(x) ==
    CASE x.k = "num" -> Sign(x.n)
      [] x.k = "inf" -> x.s
      [] x.k = "root" -> Sign(x.c.n)
      [] OTHER -> 1

\* Unary minus.
Neg(x) ==
    CASE x.k = "num" -> Num(-x.n, x.d, x.l)
      [] x.k = "inf" -> Inf(-x.s)
      [] x.k = "root" -> [x EXCEPT !.c = Num(-x.c.n, x.c.d, 0)]
      [] OTHER -> x

\* x * y, for the operands the synthesizer multiplies.
Mul(x, y) ==
    CASE x.k = "nan" \/ y.k = "nan" -> NaN
      [] x.k = "inf" \/ y.k = "inf" ->
             IF SignOf(x) = 0 \/ SignOf(y) = 0 THEN NaN
             ELSE Inf(SignOf(x) * SignOf(y))
      [] x.k = "num" /\ y.k = "num" -> Num(x.n * y.n, x.d * y.d, x.l + y.l)
      [] x.k = "num" /\ y.k = "root" ->
             IF x.n = 0 THEN Zero
             ELSE [y EXCEPT !.c = Num(x.n * y.c.n, x.d * y.c.d, 0)]
      [] x.k = "root" /\ y.k = "num" ->
             IF y.n = 0 THEN Zero
             ELSE [x EXCEPT !.c = Num(x.c.n * y.n, x.c.d * y.d, 0)]

\* x / y, for "num", "inf" and "nan" operands.
Div(x, y) ==
    CASE x.k = "nan" \/ y.k = "nan" -> NaN
      [] x.k = "inf" /\ y.k = "inf" -> NaN
      [] x.k = "inf" -> Inf(x.s * (IF SignOf(y) < 0 THEN -1 ELSE 1))
      [] y.k = "inf" -> Zero
      [] y.n = 0 -> IF x.n = 0 THEN NaN ELSE Inf(Sign(x.n))
      [] OTHER -> Num(x.n * y.d, x.d * y.n, x.l - y.l)

\* x - y, for rational operands.
Sub(x, y) == Num(x.n * y.d - y.n * x.d, x.d * y.d, 0)

\* x + y, for rational operands.
Add(x, y) == Num(x.n * y.d + y.n * x.d, x.d * y.d, 0)

\* Math.sqrt(x)
Sqrt(x) ==
    CASE x.k = "nan" -> NaN
      [] x.k = "inf" -> IF x.s > 0 THEN x ELSE NaN
      [] x.k = "num" ->
             IF x.n < 0 THEN NaN
             ELSE IF x.n = 0 THEN Zero
             ELSE IF x = One THEN One
             ELSE [k |-> "root", c |-> One, of |-> x]

\* Math.exp(x)
Exp(x) ==
    CASE x.k = "nan" -> NaN
      [] x.k = "inf" -> IF x.s > 0 THEN x ELSE Zero
      [] x.k = "num" -> IF x.n = 0 THEN One ELSE [k |-> "exp", of |-> x]

\* Math.sqrt(1 - phi * phi), for phi a result of Exp: phi * phi is above
\* one exactly when the exponent is positive.
SqrtOneMinusSquare(phi) ==
    CASE phi.k = "nan" -> NaN
      [] phi.k = "inf" -> NaN
      [] phi.k = "num" -> Sqrt(Sub(One, Mul(phi, phi)))
      [] phi.k = "exp" ->
             IF phi.of.n > 0 THEN NaN ELSE [k |-> "gain", phi |-> phi]

\* Number.isNaN and its complement, on a value of a series.
IsNaN(x) == x.k = "nan"

IsFiniteNumber(x) == x.k \notin {"nan", "inf"}

\* ---------------------------------------------------- spread synthesizer
\* pair-detail-modal.tsx, the chart effect: the series it draws for a pair.
RandomLen == 2

\* The scans whose rows the modal is opened on.
MaxSynthScans == 1

\* const days = 252
Days == 252

\* const sigma = 1
sigma == One

BaseHour == 24 * 20000

\* The rows a completed scan answers with, by name, and the half_life and
\* z_score of each PairResult: half-lives 18.5 and 30, the degenerate 0 and
\* -1; z-scores -2.5, 0 and 2.3; R1 and R2 hold the same numbers.
RowNames == {"R1", "R2", "R3", "R4", "R5"}

PairResultOf(name) ==
    CASE name = "R1" -> [half_life |-> Num(30, 1, 0), z_score |-> Num(23, 10, 0)]
      [] name = "R2" -> [half_life |-> Num(30, 1, 0), z_score |-> Num(23, 10, 0)]
      [] name = "R3" -> [half_life |-> Num(37, 2, 0), z_score |-> Num(-5, 2, 0)]
      [] name = "R4" -> [half_life |-> Zero, z_score |-> Num(-5, 2, 0)]
      [] name = "R5" -> [half_life |-> Num(-1, 1, 0), z_score |-> Zero]

Pairs == {PairResultOf(name) : name \in RowNames}

\* The result lists of the completed scans, and the bodies that carry them.
RowLists == {<<"R1", "R2">>, <<"R3", "R4", "R5">>}

CompletedBodies(t) ==
    {[task_id |-> t, status |-> "completed", results |-> l, error |-> None] :
        l \in RowLists}

\* A time zone as the browser knows it: the offset from UTC in hours
\* before every change, and the changes in order, each the instant (hours
\* since the epoch) from which a new offset applies.
FixedZone(off) == [base |-> off, changes |-> <<>>]

\* America/Chicago in 2024: UTC-6 until 2024-03-10T08:00Z, then UTC-5.
Chicago == [base |-> -6, changes |-> <<[at |-> 19792 * 24 + 8, offset |-> -5]>>]

\* Europe/London in 2024: UTC until 2024-03-31T01:00Z, then UTC+1.
London == [base |-> 0, changes |-> <<[at |-> 19813 * 24 + 1, offset |-> 1]>>]

Zones == {FixedZone(-5), FixedZone(0), FixedZone(9), Chicago, London}

\* The instant of the render in hours since the epoch, and the browser's
\* zone: 03:00 UTC seen from UTC-5 and from Chicago, noon UTC seen from
\* UTC, 22:00 UTC seen from UTC+9, 23:00 UTC seen from London.
Renders ==
    {<<BaseHour + 3, FixedZone(-5)>>, <<BaseHour + 12, FixedZone(0)>>,
     <<BaseHour + 22, FixedZone(9)>>, <<BaseHour + 3, Chicago>>,
     <<BaseHour + 23, London>>}

\* The values Math.random() returns, in quarters, as a script the
\* generator repeats.
Quarters == {0, 3}

RandomScripts == [1..RandomLen -> Quarters]

\* The i-th value of Math.random(), i from 1.
RandomAt(rnd, i) == Num(rnd[((i - 1) % Len(rnd)) + 1], 4, 0)

\* The offset of the zone z in the stretch j of its rules, j from 0 (before
\* every change), and whether the instant u lies in that stretch.
RegimeOffset(z, j) == IF j = 0 THEN z.base ELSE z.changes[j].offset

InRegime(z, j, u) ==
    /\ j = 0 \/ z.changes[j].at <= u
    /\ j = Len(z.changes) \/ u < z.changes[j + 1].at

\* The offset of the zone z at the instant t.
OffsetAt(z, t) ==
    RegimeOffset(z, CHOOSE j \in 0..Len(z.changes) : InRegime(z, j, t))

\* Date.prototype.getDate and the hour of the day, in the zone z: the
\* local time of t is t plus the offset in force at t.
LocalDay(t, z) == (t + OffsetAt(z, t)) \div 24

LocalHour(t, z) == (t + OffsetAt(z, t)) % 24

\* UTC(w): the instant whose local time in z is w. A local time the
\* clock shows twice, or never (skipped by a change), is read with the
\* offset before the change.
FromLocal(z, w) ==
    LET n == Len(z.changes)
        shown == {j \in 0..n : InRegime(z, j, w - RegimeOffset(z, j))}
        skipped == {j \in 0..(n - 1) :
                       /\ w - RegimeOffset(z, j) >= z.changes[j + 1].at
                       /\ w - RegimeOffset(z, j + 1) < z.changes[j + 1].at}
        j == IF shown # {}
             THEN CHOOSE a \in shown : \A b \in shown : a <= b
             ELSE CHOOSE a \in skipped : \A b \in skipped : a <= b
    IN  w - RegimeOffset(z, j)

\* date.setDate(date.getDate() - k): the same local time of day, k local
\* days earlier, whatever the offset on that day.
SetDateBack(t, z, k) ==
    FromLocal(z, (LocalDay(t, z) - k) * 24 + LocalHour(t, z))

\* date.toISOString().split("T")[0]: the UTC calendar day, as the number
\* of the day since the epoch.
ISODate(t) == t \div 24

\* The timestamp of point i of the loop, i from 0.
DayOf(now, z, i) == ISODate(SetDateBack(now, z, Days - i))

\* const phi = Math.exp(-Math.log(2) / halfLife)
Phi(halfLife) == Exp(Div(Neg(Log2), halfLife))

\* sigma * Math.sqrt(1 / (2 * Math.log(2) / halfLife))
RollingSigma(halfLife) ==
    Mul(sigma, Sqrt(Div(One, Div(Mul(Two, Log2), halfLife))))

\* sigma * (Math.random() - 0.5) * 2
Shock(r) == Mul(Mul(sigma, Sub(r, Num(1, 2, 0))), Two)

\* The shocks a value of the recursion has accumulated.
Coef(spread) == IF spread.k = "ar" THEN spread.coef ELSE <<>>

\* spread = phi * spread + shock * Math.sqrt(1 - phi * phi)
NextSpread(phi, spread, shock) ==
    LET gain == SqrtOneMinusSquare(phi)
    IN  CASE IsNaN(gain) \/ IsNaN(spread) -> NaN
          [] phi.k = "num" -> Add(Mul(phi, spread), Mul(shock, gain))
          [] phi.k = "exp" ->
                 [k |-> "ar", phi |-> phi, coef |-> Append(Coef(spread), shock)]

\* One iteration of the loop on the pair st of the variable spread and the
\* array data: the recursion and data.push.
Iterate(phi, now, z, rnd, st, i) ==
    LET next == NextSpread(phi, st.spread, Shock(RandomAt(rnd, i + 1)))
    IN  [spread |-> next,
         data |-> Append(st.data, [time |-> DayOf(now, z, i), value |-> next])]

\* Iterations lo, lo + 1, ..., hi - 1 of the loop, in this order. The
\* test on the first half is true of every run of it (it has pushed a
\* point); it makes the evaluator finish the first half before the second
\* starts, which keeps the evaluation shallow.
RECURSIVE Walk(_, _, _, _, _, _, _)
Walk(phi, now, z, rnd, st, lo, hi) ==
    IF hi <= lo THEN st
    ELSE IF hi = lo + 1 THEN Iterate(phi, now, z, rnd, st, lo)
    ELSE LET mid == (lo + hi) \div 2
             first == Walk(phi, now, z, rnd, st, lo, mid)
         IN  IF first.data # <<>>
             THEN Walk(phi, now, z, rnd, first, mid, hi)
             ELSE first

\* for (let i = 0; i < days; i++): the recursion's series, before the last
\* point is overwritten.
SpreadPath(p, now, z, rnd) ==
    Walk(Phi(p.half_life), now, z, rnd, [spread |-> Zero, data |-> <<>>],
         0, Days).data

\* data[data.length - 1].value = pair.z_score * rollingSigma
AnchorMutant(data, p) ==
    [data EXCEPT ![1].value = Mul(p.z_score, RollingSigma(p.half_life))]

Anchor(data, p) ==
    [data EXCEPT ![Len(data)].value =
                     Mul(p.z_score, RollingSigma(p.half_life))]

\* The band pushes of the loop.
Band(now, z, v) == [i \in 1..Days |-> [time |-> DayOf(now, z, i - 1), value |-> v]]

UpperBandMutant(p, now, z) == Band(now, z, RollingSigma(p.half_life))

UpperBand(p, now, z) == Band(now, z, Mul(Two, RollingSigma(p.half_life)))

LowerBand(p, now, z) == Band(now, z, Mul(Neg(Two), RollingSigma(p.half_life)))

MeanLine(now, z) == Band(now, z, Zero)

\* Synthesize without the anchor step: the last point is the recursion's.
SynthesizeNoAnchor(p, now, z, rnd) ==
    [data |-> SpreadPath(p, now, z, rnd),
     upperBand |-> UpperBand(p, now, z),
     lowerBand |-> LowerBand(p, now, z),
     meanLine |-> MeanLine(now, z)]

\* The four series the effect hands to the chart.
Synthesize(p, now, z, rnd) ==
    [data |-> Anchor(SpreadPath(p, now, z, rnd), p),
     upperBand |-> UpperBand(p, now, z),
     lowerBand |-> LowerBand(p, now, z),
     meanLine |-> MeanLine(now, z)]

\* The page as mounted in a browser of one of the zones: no pair selected,
\* the clock not read yet, no chart.
InitSynth ==
    /\ InitClient
    /\ InitFormState
    /\ pair = None
    /\ clock = 0
    /\ zone \in {r[2] : r \in Renders}
    /\ random = <<>>
    /\ chart = None

\* The series of the effect for every pair, render and noise, computed
\* once.
Charts ==
    [p \in Pairs, r \in Renders, rnd \in RandomScripts |->
        Synthesize(p, r[1], r[2], rnd)] @@ <<>>

\* The PairResult object of row i of the results shown. setResults stores
\* the array of the answer of a scan, so a row is the same object for as
\* long as the results of that scan are shown and no other row is that
\* object.
RowAt(i) ==
    [scan |-> scans, index |-> i,
     half_life |-> PairResultOf(results[i]).half_life,
     z_score |-> PairResultOf(results[i]).z_score]

\* useEffect(() => { if (!pair || !chartContainerRef.current) return; ... },
\* [pair]) with the cleanup of the run before it: the chart of the pair
\* before is removed (return () => { ...; chart.remove(); }); for a pair
\* the effect reads the clock with new Date(), draws fresh noise with
\* Math.random() and hands the series to a new chart; for null it returns
\* at once.
RenderChart(p) ==
    IF p = None
    THEN chart' = None /\ random' = <<>> /\ UNCHANGED clock
    ELSE \E r \in Renders, rnd \in RandomScripts :
             /\ r[2] = zone
             /\ clock' = r[1]
             /\ random' = rnd
             /\ chart' =
                    Some(Charts[[half_life |-> p[1].half_life,
                                 z_score |-> p[1].z_score], r, rnd])

\* setSelectedPair(p): the state update, the render and the effect of the
\* modal, which React runs in the task of the click. Setting the object
\* already selected renders nothing.
setSelectedPair(p) ==
    /\ p # pair
    /\ pair' = p
    /\ RenderChart(p)
    /\ UNCHANGED <<call, observed, served, net, pageVars, formVars, clicks,
                   zone>>

\* A row of the results table is clicked: onClick={() => onRowClick(res)},
\* onRowClick={setSelectedPair}.
onRowClick(i) ==
    /\ i \in 1 .. Len(results)
    /\ setSelectedPair(Some(RowAt(i)))

\* The modal's overlay or close button is clicked:
\* onClose={() => setSelectedPair(null)}.
onClose ==
    /\ pair # None
    /\ setSelectedPair(None)

\* The scans of the page whose rows the modal is opened on: every POST
\* /scan and every status fetch is answered, the fetch with a completed
\* task.
NextSynth ==
    \/ GetPresetsEnds
    \/ /\ scans < MaxSynthScans
       /\ handleScan(<<"AAPL", "MSFT">>, "3y")
       /\ UNCHANGED clicks
    \/ StartScanResolves("t1")
    \/ \E b \in CompletedBodies("t1") : PageGetResultsResolves(b)
    \/ \E i \in 1 .. 3 : onRowClick(i)
    \/ onClose

SpecSynth == InitSynth /\ [][NextSynth]_vars

\* Liveness: every status fetch is answered or fails, and every timer fires.
FairSpec ==
    /\ Spec
    /\ \A c \in DirectCalls :
           /\ WF_vars((\E b \in UNION {ServiceBodies(t) : t \in TaskIds} :
                           GetResultsResolves(c, b))
                      \/ (\E f \in TransportFailures : GetResultsFails(c, f)))
           /\ WF_vars(TimerFires(c))

\* ------------------------------------------------------------ properties
TerminalStatuses == {"completed", "failed"}

Ended(r) == r.pc \in {"returned", "threw"}

Max0(m) == IF m > 0 THEN m ELSE 0

StatusSeq(log) == [i \in 1 .. Len(log) |-> log[i].status]

\* The status fetches of call c in flight.
InFlight(c) == {q \in net : q.kind = "results" /\ q.call = c}

\* The requests of scans and polls in flight: POST /scan and the status
\* fetches (the form's presets request is not one).
ScanTraffic == {q \in net : q.kind \in {"scan", "results"}}

\* The messages of the errors getResults throws.
FetchErrors == {GetResultsError(f) : f \in TransportFailures}

\* C1: whenever pollResults returns a value its status is completed or
\* failed, never processing or not_found; a call that ended without
\* returning a value threw an error.
C1_ReturnsTerminalOrThrows ==
    \A c \in DirectCalls :
        LET r == call[c]
        IN  /\ r.returned # None => r.returned[1].status \in TerminalStatuses
            /\ r.pc = "returned" => r.returned # None /\ r.thrown = None
            /\ Ended(r) /\ r.pc # "returned" =>
                   r.pc = "threw" /\ r.thrown # None /\ r.returned = None

C1_Witness ==
    \E c \in DirectCalls :
        /\ call[c].pc = "returned"
        /\ call[c].returned[1].status = "failed"
        /\ StatusSeq(served[c]) = <<"not_found", "processing", "failed">>

\* C2: the i-th observer call carries the i-th fetched snapshot; the value
\* pollResults returns is the snapshot of the last observer call; a terminal
\* snapshot is the last one fetched: once it is fetched the call has
\* returned, no fetch is in flight and none was issued after it.
C2_ObserverOrderAndLast ==
    \A c \in DirectCalls :
        LET r == call[c]
        IN  /\ observed[c] = served[c]
            /\ r.returned # None =>
                   /\ observed[c] # <<>>
                   /\ r.returned[1] = observed[c][Len(observed[c])]
                   /\ r.updates = Len(observed[c])
            /\ \A i \in 1 .. Len(served[c]) :
                   served[c][i].status \in TerminalStatuses =>
                       /\ i = Len(served[c])
                       /\ r.pc = "returned"
                       /\ r.fetches = i
                       /\ InFlight(c) = {}

C2_Witness ==
    \E c \in DirectCalls :
        /\ call[c].pc = "returned"
        /\ Len(observed[c]) = 2
        /\ observed[c][1].results # observed[c][2].results
        /\ call[c].maxAttempts = 3

\* C3: a call has at most one status fetch in flight, and a fetch is in
\* flight only when every earlier fetch of the call has resolved, its
\* snapshot has been handed to the observer and the suspension after it has
\* elapsed; no fetch is in flight during a suspension.
C3_NoOverlappingPolls ==
    \A c \in DirectCalls :
        LET r == call[c]
        IN  /\ Cardinality(InFlight(c)) <= 1
            /\ InFlight(c) # {} =>
                   /\ r.pc = "fetching"
                   /\ r.fetchOk = r.fetches - 1
                   /\ r.fetchFailed = 0
                   /\ r.updates = r.fetches - 1
                   /\ Len(observed[c]) = r.fetches - 1
                   /\ r.sleeps = r.fetches - 1
                   /\ r.attempts = r.fetches - 1
            /\ r.pc = "sleeping" => InFlight(c) = {}
            /\ r.pc = "fetching" => InFlight(c) # {}

C3_Witness ==
    \E c \in DirectCalls :
        /\ InFlight(c) # {}
        /\ call[c].fetches = 3
        /\ call[c].sleeps = 2

\* C4: when every fetch is answered or fails and every timer fires, a
\* pollResults call that has started ends: it returns or throws.
C4_EveryCallEnds ==
    \A c \in DirectCalls :
        (call[c].pc \in {"fetching", "sleeping"}) ~> Ended(call[c])

C4_Witness ==
    \E c \in DirectCalls :
        /\ call[c].pc = "threw"
        /\ call[c].thrown = Some(PollTimeoutMessage)
        /\ call[c].maxAttempts >= 3
        /\ call[c].attempts = call[c].maxAttempts

\* C5: a call issues at most maxAttempts status fetches (none for a ceiling
\* below one); a call that threw the poll timeout issued exactly maxAttempts
\* fetches, all answered, and made as many observer calls; and a call whose
\* maxAttempts fetches were all answered with a non-terminal status ends
\* with the poll timeout, not with a value.
C5_CeilingAndTimeout ==
    \A c \in DirectCalls :
        LET r == call[c]
        IN  /\ r.fetches <= Max0(r.maxAttempts)
            /\ r.thrown = Some(PollTimeoutMessage) =>
                   /\ r.fetches = Max0(r.maxAttempts)
                   /\ r.fetchOk = r.fetches
                   /\ r.updates = r.fetches
                   /\ Len(observed[c]) = r.fetches
                   /\ r.returned = None
            /\ ( /\ Ended(r)
                 /\ r.maxAttempts >= 1
                 /\ Len(served[c]) = r.maxAttempts
                 /\ \A i \in 1 .. Len(served[c]) :
                        served[c][i].status \notin TerminalStatuses )
               => r.pc = "threw" /\ r.thrown = Some(PollTimeoutMessage)

C5_Witness ==
    \E c \in DirectCalls :
        /\ call[c].thrown = Some(PollTimeoutMessage)
        /\ call[c].maxAttempts >= 2
        /\ call[c].fetches = call[c].maxAttempts
        /\ Len(observed[c]) = call[c].maxAttempts

\* C6: a not_found answer is a successful poll: it is handed to the
\* observer, the call does not return on it and throws no error because of
\* it; a call answered processing, not_found, completed makes three observer
\* calls in that order and returns the completed snapshot.
C6_NotFoundIsNotTerminal ==
    \A c \in DirectCalls :
        LET r == call[c]
            n == Len(served[c])
        IN  /\ (n > 0 /\ served[c][n].status = "not_found") =>
                   /\ Len(observed[c]) = n
                   /\ observed[c][n] = served[c][n]
                   /\ r.pc # "returned"
                   /\ r.fetchFailed = 0 =>
                          r.thrown \in {None, Some(PollTimeoutMessage)}
                   /\ r.thrown = Some(PollTimeoutMessage) =>
                          r.attempts = r.maxAttempts
            /\ StatusSeq(served[c]) = <<"processing", "not_found", "completed">> =>
                   /\ StatusSeq(observed[c]) =
                          <<"processing", "not_found", "completed">>
                   /\ r.pc = "returned"
                   /\ r.returned = Some(served[c][3])

C6_Witness ==
    \E c \in DirectCalls :
        /\ StatusSeq(observed[c]) = <<"processing", "not_found", "completed">>
        /\ call[c].pc = "returned"
        /\ call[c].returned[1].status = "completed"

\* C7: the observer is called exactly once for every status fetch that
\* resolved, the terminal one included: the number of observer calls is the
\* number of resolved fetches, and the snapshots handed over are the
\* answers, none skipped and none repeated.
C7_OneObserverCallPerFetch ==
    \A c \in DirectCalls :
        /\ call[c].updates = call[c].fetchOk
        /\ call[c].fetchOk = Len(served[c])
        /\ Len(observed[c]) = call[c].updates
        /\ \A i \in 1 .. Len(served[c]) : observed[c][i] = served[c][i]

C7_Witness ==
    \E c \in DirectCalls :
        /\ call[c].updates = 3
        /\ call[c].pc = "returned"
        /\ observed[c][1].status = observed[c][2].status

\* C8: when a status fetch fails at transport level the call throws the
\* error of getResults at once: the observer is not called for that poll,
\* no suspension follows and no further fetch is issued.
C8_FetchFailureEndsCall ==
    \A c \in DirectCalls :
        LET r == call[c]
        IN  r.fetchFailed > 0 =>
                /\ r.pc = "threw"
                /\ r.thrown # None /\ r.thrown[1] \in FetchErrors
                /\ r.returned = None
                /\ r.fetchFailed = 1
                /\ r.fetches = r.fetchOk + 1
                /\ r.updates = r.fetchOk
                /\ Len(observed[c]) = r.fetchOk
                /\ r.sleeps = r.fetchOk
                /\ r.attempts = r.fetchOk
                /\ InFlight(c) = {}

C8_Witness ==
    \E c \in DirectCalls :
        /\ call[c].fetchFailed = 1
        /\ call[c].fetchOk = 1
        /\ call[c].attempts + 1 < call[c].maxAttempts
        /\ call[c].thrown = Some("Results fetch failed: Internal Server Error")

\* C9: every startScan call sends one POST /scan and no more; when the
\* request does not succeed startScan throws, the request is not sent
\* again, handleScan issues no status fetch for the scan and shows the
\* error.
C9_SubmitFailure ==
    /\ posts = scans
    /\ Cardinality({q \in net : q.kind = "scan"}) <= 1
    /\ (submit = "pending") = (hpc = "submitting")
    /\ (submit = "pending") = ({q \in net : q.kind = "scan"} # {})
    /\ submit = "threw" =>
           /\ hpc = "idle"
           /\ ScanTraffic = {}
           /\ call[PageCall] = IdleCall
           /\ error \in {StartScanError(f) : f \in TransportFailures}
           /\ error # ""
           /\ results = <<>>
           /\ ~isScanning

C9_Witness ==
    /\ submit = "threw"
    /\ scans = 2
    /\ posts = 2
    /\ error = "Scan request failed: "

\* C10: the result list the page shows is non-empty only when the latest
\* pollResults call returned a completed snapshot, and then it is that
\* snapshot's results; the results of a processing, not_found or failed
\* snapshot are never shown.
C10_ResultsOnlyFromCompleted ==
    LET r == call[PageCall]
    IN  /\ results # <<>> =>
               /\ r.pc = "returned"
               /\ r.returned[1].status = "completed"
               /\ results = r.returned[1].results
               /\ hpc = "idle"
        /\ (r.pc = "returned" /\ r.returned[1].status = "completed") =>
               results = r.returned[1].results
        /\ (r.result # None /\ r.result[1].status # "completed") =>
               results = <<>>

C10_Witness ==
    /\ results = <<"P1", "P2">>
    /\ scans = 2
    /\ call[PageCall].updates >= 2

\* How the page's latest scan ended, read off the startScan and pollResults
\* calls it made.
ScanOutcome ==
    LET r == call[PageCall]
    IN  IF submit = "threw" THEN "submit_failed"
        ELSE IF r.pc = "threw" /\ r.fetchFailed > 0 THEN "fetch_failed"
        ELSE IF r.pc = "threw" THEN "timeout"
        ELSE IF r.pc = "returned" /\ r.returned[1].status = "failed"
        THEN "remote_failed"
        ELSE IF r.pc = "returned" THEN "completed"
        ELSE "none"

\* C11 (as claimed): when pollResults returns a failed snapshot, the error
\* the page shows is the snapshot's error string, unchanged, whatever string
\* the service sent.
C11_ErrorVerbatim ==
    LET r == call[PageCall]
    IN  (ScanOutcome = "remote_failed" /\ r.returned[1].error # None) =>
            error = r.returned[1].error[1]

\* C11 (amended): when pollResults returns a failed snapshot, the page
\* shows the snapshot's error string unchanged if it is a non-empty string,
\* and "Scan failed unexpectedly" if the string is empty or missing; in both
\* cases an error is shown, no results are shown, the status line is empty
\* and the call did not throw.
C11_ErrorVerbatimOrDefault ==
    LET r == call[PageCall]
    IN  ScanOutcome = "remote_failed" =>
            /\ (r.returned[1].error # None /\ r.returned[1].error[1] # "") =>
                   error = r.returned[1].error[1]
            /\ (r.returned[1].error = None \/ r.returned[1].error = Some("")) =>
                   error = "Scan failed unexpectedly"
            /\ error # ""
            /\ results = <<>>
            /\ scanStatus = ""
            /\ ~isScanning
            /\ r.thrown = None /\ r.fetchFailed = 0

C11_Witness ==
    /\ ScanOutcome = "remote_failed"
    /\ call[PageCall].returned[1].error = Some("engine crashed")
    /\ call[PageCall].returned[1].results # <<>>
    /\ error = "engine crashed"

\* What the page shows after a scan that ended with the poll timeout.
TimeoutPageState ==
    [results |-> <<>>, isScanning |-> FALSE, scanStatus |-> "",
     error |-> PollTimeoutMessage]

\* C12 (as claimed): a scan that ended with a failed submit, a failed status
\* fetch or a remote-reported failed task leaves the page in a state other
\* than the one a poll timeout leaves it in.
C12_TimeoutOutcomeDistinct ==
    (hpc = "idle"
        /\ ScanOutcome \in {"submit_failed", "fetch_failed", "remote_failed"})
    => PageState # TimeoutPageState

\* The POST /scan requests in flight.
ScanRequests == {q \in net : q.kind = "scan"}


\* The number of tickers a text holds: its maximal runs of characters other
\* than commas and white space.
TokenCount(s) ==
    Cardinality({i \in 1 .. Len(s) :
                    /\ s[i] \notin {",", " "}
                    /\ (i = 1 \/ s[i - 1] \in {",", " "})})

\* The tickers of a list are well formed: non-empty, free of white space
\* and commas, in upper case.
WellFormed(tickers) ==
    \A i \in 1 .. Len(tickers) :
        /\ tickers[i] # <<>>
        /\ \A j \in 1 .. Len(tickers[i]) :
               tickers[i][j] \notin {",", " ", "a", "b"}

\* Of every text of up to MaxInput characters the form parses exactly the
\* tickers the text holds, well formed.
ParsedWellFormed ==
    \A s \in Texts :
        /\ Len(ParseTickers(s)) = TokenCount(s)
        /\ WellFormed(ParseTickers(s))

\* A press of the Run Scan button.
Pressed == clicks' = clicks + 1

\* The scan requests a step sends.
Sent == {q \in net' : q.kind = "scan"} \ ScanRequests

\* C13: every scan request sent carries at least two tickers, each
\* non-empty, free of white space and commas, and in upper case; a scan
\* request is sent only by a press of the button on a text that holds at
\* least two tickers, and every such press sends one with the tickers of
\* the text; a press on a text that holds fewer than two tickers sends
\* nothing.
C13_TickersWellFormed ==
    /\ [](/\ ParsedWellFormed
          /\ \A q \in ScanRequests :
                 Len(q.tickers) >= 2 /\ WellFormed(q.tickers))
    /\ [][(Sent # {} \/ posts' # posts) =>
              Pressed /\ TokenCount(tickerInput) >= 2]_vars
    /\ [][(Pressed /\ TokenCount(tickerInput) >= 2) =>
              /\ posts' = posts + 1
              /\ \E q \in Sent : q.tickers = ParseTickers(tickerInput)]_vars
    /\ [][(Pressed /\ TokenCount(tickerInput) < 2) =>
              posts' = posts /\ net' = net]_vars

C13_Witness ==
    /\ tickerInput = <<" ", "a", ",", "b">>
    /\ clicks = 2
    /\ posts = 1
    /\ \E q \in ScanRequests : q.tickers = <<<<"A">>, <<"B">>>>

\* The request the form holds is malformed: fewer than two tickers, or the
\* custom period with a date missing.
Malformed ==
    \/ TokenCount(tickerInput) < 2
    \/ period = "custom" /\ (startDate = None \/ endDate = None)

\* C14 (as claimed): a press of Run Scan on a malformed request shows a
\* validation error.
C14_ValidationErrorShown ==
    [][(Pressed /\ Malformed) => error' # ""]_vars

\* C15 (as claimed): every scan request sent with the custom period carries
\* the start and the end date chosen in the form, with start before end.
C15_CustomDatesSent ==
    [][\A q \in Sent :
          q.period = "custom" =>
              /\ "start_date" \in DOMAIN q /\ "end_date" \in DOMAIN q
              /\ startDate # None /\ endDate # None
              /\ q.start_date = startDate /\ q.end_date = endDate
              /\ startDate[1] < endDate[1]]_vars

\* C16 (as claimed): no ticker occurs twice in the ticker list of a scan
\* request.
C16_TickersUnique ==
    \A q \in ScanRequests :
        \A i, j \in 1 .. Len(q.tickers) :
            i # j => q.tickers[i] # q.tickers[j]

\* The pair the modal shows and the series its chart was given.
Shown == pair[1]

Drawn == chart[1]

\* sqrt(halfLife / (2 ln 2))
SigmaOf(halfLife) == Sqrt(Div(halfLife, Mul(Two, Log2)))

AllSeries == {Drawn.data, Drawn.upperBand, Drawn.lowerBand, Drawn.meanLine}

\* The points the recursion produces for the pair, the render and the noise
\* of the chart shown.
Recursion ==
    SpreadPath([half_life |-> Shown.half_life, z_score |-> Shown.z_score],
               clock, zone, random)

\* C17: for a positive half-life the last point of the spread series is
\* z_score * sqrt(halfLife / (2 ln 2)), and every earlier point is the one
\* the recursion produced.
C17_AnchorLastPointOnly ==
    (chart # None /\ SignOf(Shown.half_life) > 0) =>
        /\ Drawn.data[Days].value = Mul(Shown.z_score, SigmaOf(Shown.half_life))
        /\ SubSeq(Drawn.data, 1, Days - 1) =
               SubSeq(Recursion, 1, Days - 1)

C17_Witness ==
    /\ chart # None
    /\ Shown.half_life = Num(30, 1, 0)
    /\ Shown.z_score = Num(23, 10, 0)
    /\ Drawn.data[Days].value.k = "root"
    /\ Drawn.data[Days - 1].value.k = "ar"
    /\ Drawn.data[1].value # Drawn.data[2].value

\* C18: the four series have 252 points each and the same timestamp at
\* every index; the upper band is 2 * sqrt(halfLife / (2 ln 2)) everywhere,
\* the lower band its negation and the mean line 0, whatever the noise and
\* the z-score (for a negative half-life both sides of the band equations
\* are NaN).
C18_BandsConstantAndAligned ==
    chart # None =>
        /\ \A srs \in AllSeries : Len(srs) = 252
        /\ \A i \in 1..252 : \A srs \in AllSeries :
               srs[i].time = Drawn.data[i].time
        /\ \A i \in 1..252 :
               /\ Drawn.upperBand[i].value =
                      Mul(Two, SigmaOf(Shown.half_life))
               /\ Drawn.lowerBand[i].value = Neg(Drawn.upperBand[i].value)
               /\ Drawn.meanLine[i].value = Zero

C18_Witness ==
    /\ chart # None
    /\ Shown.half_life = Num(37, 2, 0)
    /\ Drawn.upperBand[1].value.k = "root"
    /\ SignOf(Drawn.lowerBand[Days].value) < 0
    /\ Drawn.data[3].value # Drawn.data[4].value

\* C19: the timestamps are 252 consecutive calendar days in increasing
\* order, and the last one is today, the day of the render (read as either
\* the UTC day or the day of the browser's zone).
C19_ConsecutiveDaysEndingToday ==
    chart # None =>
        /\ Len(Drawn.data) = 252
        /\ \A i \in 1..(Len(Drawn.data) - 1) :
               Drawn.data[i + 1].time = Drawn.data[i].time + 1
        /\ Drawn.data[Len(Drawn.data)].time
               \in {ISODate(clock), LocalDay(clock, zone)}

\* C20: a zero or negative half-life is rejected before any point is
\* produced, and no series or band handed to the chart holds NaN or an
\* infinite value.
C20_InvalidHalfLifeRejected ==
    /\ (pair # None /\ SignOf(Shown.half_life) <= 0) => chart = None
    /\ chart # None =>
           \A srs \in AllSeries : \A i \in 1..Len(srs) :
               IsFiniteNumber(srs[i].value)

\* The values of a series, without the timestamps.
Values(srs) == [i \in 1 .. Len(srs) |-> srs[i].value]

\* The series of a second run of the synthesizer on the pair shown, at the
\* instant now in zone z and with the noise rnd.
SecondRun(now, z, rnd) ==
    Charts[[half_life |-> Shown.half_life, z_score |-> Shown.z_score],
           <<now, z>>, rnd]

\* C21: a second run of the synthesizer on the same half-life and z-score,
\* whatever its noise draws, gives the same last value of
\* the spread series, the same upper and lower band values and the same
\* mean line as the run that drew the chart (for a negative half-life these
\* values are NaN in both runs).
C21_AnchorAndBandsIgnoreNoise ==
    chart # None =>
        \A rnd \in RandomScripts :
            LET other == SecondRun(clock, zone, rnd)
            IN  /\ other.data[Days].value = Drawn.data[Days].value
                /\ Values(other.upperBand) = Values(Drawn.upperBand)
                /\ Values(other.lowerBand) = Values(Drawn.lowerBand)
                /\ Values(other.meanLine) = Values(Drawn.meanLine)

C21_Witness ==
    /\ chart # None
    /\ Shown.half_life = Num(37, 2, 0)
    /\ Shown.z_score = Num(-5, 2, 0)
    /\ \E rnd \in RandomScripts :
           LET other == SecondRun(clock, zone, rnd)
           IN  /\ rnd # random
               /\ other.data[1].value # Drawn.data[1].value
               /\ other.data[Days - 1].value # Drawn.data[Days - 1].value
               /\ other.data[Days].value = Drawn.data[Days].value

\* The record of a call that ran alone from record r and has handled the
\* answers of log, the timers between them having fired.
RECURSIVE ReplayTo(_, _)
ReplayTo(r, log) ==
    IF log = <<>> THEN r
    ELSE LET before == ReplayTo(r, SubSeq(log, 1, Len(log) - 1))
             ready == IF before.pc = "sleeping" THEN AfterSleep(before)
                      ELSE before
         IN  AfterGetResults(ready, log[Len(log)])

\* The records a call pollResults(t, observer, interval, m) can be in when
\* it runs alone and its fetches were answered with log: the last timer
\* has fired or not, and the fetch after it has failed or not.
AloneStates(t, m, log) ==
    LET s == ReplayTo(EnterPollResults(t, m), log)
        woke == IF s.pc = "sleeping" THEN AfterSleep(s) ELSE s
    IN  {s, woke}
            \cup (IF woke.pc = "fetching"
                  THEN {AfterGetResultsFailure(woke, f) : f \in TransportFailures}
                  ELSE {})

\* C22: of two calls running concurrently on different handles, each has
\* fetches in flight for its own handle only, each counts its own elapsed
\* suspensions from zero, and the record and the observer log of each are
\* those of a call running alone on the answers to its own fetches.
C22_ConcurrentCallsIndependent ==
    /\ \A q \in net :
           q.kind = "results" =>
               q.call \in ConcurrentCalls /\ q.taskId = HandleOf(q.call)
    /\ \A c \in ConcurrentCalls :
           LET r == call[c]
           IN  r.pc # "idle" =>
                   /\ r.taskId = HandleOf(c)
                   /\ r.attempts =
                          r.sleeps - (IF r.pc = "sleeping" THEN 1 ELSE 0)
                   /\ r \in AloneStates(r.taskId, r.maxAttempts, served[c])
                   /\ observed[c] = served[c]
                   /\ \A i \in 1 .. Len(served[c]) :
                          served[c][i].task_id = HandleOf(c)

C22_Witness ==
    /\ InFlight("d1") # {}
    /\ InFlight("d2") # {}
    /\ call["d1"].attempts = 1
    /\ call["d2"].attempts = 0
    /\ call["d1"].maxAttempts # call["d2"].maxAttempts
    /\ StatusSeq(observed["d1"]) = <<"not_found">>

\* C23 (as claimed): the suspensions of a call are those between two
\* consecutive status fetches: while fetch i is in flight i - 1 suspensions
\* have been started, and a call that has ended, with a terminal snapshot,
\* a fetch error or the poll timeout, has started one suspension fewer than
\* it issued fetches (none when it issued no fetch).
C23_SuspendOnlyBetweenFetches ==
    \A c \in DirectCalls :
        LET r == call[c]
        IN  /\ r.pc = "fetching" => r.sleeps = r.fetches - 1
            /\ r.pc = "sleeping" => r.sleeps = r.fetches
            /\ Ended(r) => r.sleeps = Max0(r.fetches - 1)

\* The ways a call has ended, read off its record: with a terminal
\* snapshot, with the error of a failed fetch, with the poll timeout, with
\* the error its observer threw.
EndedByReturn(r) ==
    /\ r.pc = "returned" /\ r.thrown = None
    /\ r.result # None /\ r.returned = r.result
    /\ r.returned[1].status \in TerminalStatuses

EndedByFetchError(r) ==
    /\ r.pc = "threw" /\ r.returned = None
    /\ r.fetchFailed = 1
    /\ r.thrown # None /\ r.thrown[1] \in FetchErrors

EndedByTimeout(r) ==
    /\ r.pc = "threw" /\ r.returned = None
    /\ r.fetchFailed = 0
    /\ r.thrown = Some(PollTimeoutMessage)
    /\ r.attempts >= r.maxAttempts
    /\ r.fetches = Max0(r.maxAttempts)

EndedByObserver(r) ==
    /\ r.pc = "threw" /\ r.returned = None
    /\ r.fetchFailed = 0
    /\ r.thrown = Some(ObserverErrorMessage)
    /\ r.updates = r.fetches /\ r.updates >= 1
    /\ r.sleeps = r.fetches - 1

\* The number of the conditions of the set ways that hold.
HowMany(ways) == Cardinality({i \in DOMAIN ways : ways[i]})

\* C24 (as claimed): a call that has ended ended in exactly one of three
\* ways: a terminal snapshot was fetched, a status fetch failed, or the
\* attempt ceiling was exhausted; nothing the observer does ends a call.
C24_ThreeWaysToEnd ==
    \A c \in DirectCalls :
        LET r == call[c]
        IN  /\ Ended(r) =>
                   HowMany(<<EndedByReturn(r), EndedByFetchError(r),
                             EndedByTimeout(r)>>) = 1
            /\ ~Ended(r) => r.thrown = None /\ r.returned = None

\* C24 (amended): a call that has ended ended in exactly one of four ways:
\* a terminal snapshot was fetched, a status fetch failed, the attempt
\* ceiling was exhausted, or the observer threw, in which case the call
\* throws the observer's error at once, without a further suspension or
\* fetch; a call that has not ended has thrown and returned nothing.
C24_FourWaysToEnd ==
    \A c \in DirectCalls :
        LET r == call[c]
        IN  /\ Ended(r) =>
                   /\ HowMany(<<EndedByReturn(r), EndedByFetchError(r),
                                EndedByTimeout(r), EndedByObserver(r)>>) = 1
                   /\ InFlight(c) = {}
            /\ ~Ended(r) => r.thrown = None /\ r.returned = None

C24_Witness ==
    \E c \in DirectCalls :
        /\ EndedByObserver(call[c])
        /\ call[c].fetches = 2
        /\ call[c].maxAttempts = 3
        /\ call[c].result[1].status = "completed"

\* The scanning flag is true exactly while a handleScan invocation is
\* between its first statement and its finally block, and so whenever a
\* request of the scan is in flight or its timer runs.
FlagCoversScan ==
    /\ isScanning = (hpc # "idle")
    /\ (ScanRequests # {} \/ InFlight(PageCall) # {}) => isScanning
    /\ call[PageCall].pc \in {"fetching", "sleeping"} => isScanning
    /\ (hpc = "idle" /\ ScanOutcome # "none") => ~isScanning

\* C25: the scanning flag is true from the start of a scan handler to its
\* end, in particular while a submit or a status fetch of the scan is in
\* flight, it is false once the handler has ended, on every path, and when
\* every request is answered or fails and every timer fires a flag that is
\* true becomes false.
C25_ScanningFlagCleared ==
    /\ []FlagCoversScan
    /\ isScanning ~> ~isScanning

C25_Witness ==
    /\ ScanOutcome = "timeout"
    /\ ~isScanning
    /\ hpc = "idle"
    /\ scans = 2
    /\ call[PageCall].fetches = DefaultMaxAttempts

\* C26: whenever the Run Scan button is enabled (the flag is false) no scan
\* handler is running, no request of a scan is in flight and no poll loop
\* is fetching or suspended; hence a press starts a scan only after the one
\* before has ended, and the scan requests in flight are those of the
\* latest scan only: at most one POST /scan, at most one status fetch,
\* never both.
C26_OneScanInFlight ==
    /\ ~isScanning =>
           /\ hpc = "idle"
           /\ ScanTraffic = {}
           /\ call[PageCall].pc \in {"idle", "returned", "threw"}
    /\ Cardinality(ScanTraffic) <= 1
    /\ \A q \in net :
           /\ q.kind = "scan" => q.scan = scans /\ hpc = "submitting"
           /\ q.kind = "results" =>
                  /\ q = Awaited(PageCall, call[PageCall])
                  /\ hpc = "tracking"

C26_Witness ==
    /\ scans = 2
    /\ isScanning
    /\ InFlight(PageCall) # {}
    /\ call[PageCall].fetches = 2
    /\ ButtonDisabled

\* C27: from the moment handleScan issues the POST /scan of a scan until
\* its pollResults call has returned or thrown (or the submit has failed),
\* the result list and the error the page shows are empty, whatever the
\* scan before left there.
C27_ScanStartClearsPage ==
    (hpc \in {"submitting", "tracking"}
        \/ ScanRequests # {} \/ InFlight(PageCall) # {}
        \/ call[PageCall].pc \in {"fetching", "sleeping"})
    => results = <<>> /\ error = ""

C27_Witness ==
    /\ scans = 2
    /\ hpc = "tracking"
    /\ call[PageCall].pc = "sleeping"
    /\ call[PageCall].updates = 1
    /\ scanStatus = "Analyzing cointegration & running Monte Carlo..."
    /\ results = <<>>

\* C28: no state of the page shows an error together with rows; once a
\* scan has ended, either it completed, the rows are those of its snapshot
\* and no error is shown, or it ended otherwise, an error is shown and no
\* rows are.
C28_ErrorAndResultsExclusive ==
    /\ ~(error # "" /\ results # <<>>)
    /\ (hpc = "idle" /\ ScanOutcome = "completed") =>
           error = "" /\ results = call[PageCall].returned[1].results
    /\ (hpc = "idle" /\ ScanOutcome \in {"submit_failed", "fetch_failed",
                                         "timeout", "remote_failed"}) =>
           error # "" /\ results = <<>>

C28_Witness ==
    /\ scans = 2
    /\ hpc = "idle"
    /\ ScanOutcome = "completed"
    /\ results = <<"P1", "P2">>
    /\ error = ""
    /\ posts = 2

\* C29: a status fetch of the page is in flight, or was issued, only after
\* the POST /scan of the scan was answered, and it asks for the task_id of
\* that answer; a scan sends one POST /scan, and none while it polls.
C29_FetchAfterSubmitWithItsHandle ==
    /\ \A q \in net :
           q.kind = "results" =>
               /\ q.call = PageCall
               /\ submit = "returned"
               /\ task_id # None /\ q.taskId = task_id[1]
    /\ call[PageCall].fetches > 0 =>
           /\ submit = "returned"
           /\ task_id = Some(call[PageCall].taskId)
    /\ submit \in {"none", "pending", "threw"} =>
           /\ task_id = None
           /\ call[PageCall] = IdleCall
           /\ InFlight(PageCall) = {}
    /\ posts = scans
    /\ InFlight(PageCall) # {} => ScanRequests = {}

C29_Witness ==
    /\ scans = 2
    /\ task_id = Some("t2")
    /\ \E q \in InFlight(PageCall) : q.taskId = "t2" /\ q.seq = 3
    /\ posts = 2

\* C30: a call made with maxAttempts of zero or less has issued no status
\* fetch, made no observer call and started no suspension, and has thrown
\* the poll timeout; in every state of every call the attempt counter is
\* at least 0 and at most max(maxAttempts, 0).
C30_NoPollBelowOneAttempt ==
    \A c \in DirectCalls :
        LET r == call[c]
        IN  /\ 0 <= r.attempts
            /\ r.attempts <= Max0(r.maxAttempts)
            /\ (r.pc # "idle" /\ r.maxAttempts <= 0) =>
                   /\ r.pc = "threw"
                   /\ r.thrown = Some(PollTimeoutMessage)
                   /\ r.returned = None
                   /\ r.fetches = 0 /\ InFlight(c) = {}
                   /\ r.updates = 0 /\ observed[c] = <<>>
                   /\ r.sleeps = 0
                   /\ r.attempts = 0

C30_Witness ==
    \E c \in DirectCalls :
        /\ call[c].maxAttempts = -1
        /\ call[c].pc = "threw"
        /\ call[c].thrown = Some(PollTimeoutMessage)
        /\ call[c].taskId = "t2"
        /\ ScanTraffic = {}

====
